---- MODULE Spec2Model ----
(***************************************************************************)
(* Model of tuxedo_ioctl/src/hal/uniwill.rs: the Uniwill hardware          *)
(* abstraction (HardwareDevice and TdpDevice for UniwillHardware).         *)
(*                                                                         *)
(* Every trait method is one action.  An action draws the method's         *)
(* arguments and the answer of the ioctl primitive it calls, and records   *)
(* in `last` the transport calls the method issued and the value it        *)
(* returned.  Return is the caller taking that value.                      *)
(***************************************************************************)
EXTENDS Integers, Sequences, FiniteSets

VARIABLES dev, profs, last

vars == <<dev, profs, last>>

----------------------------------------------------------------------------
(* Bounds of the model *)

\* values an ioctl read may deliver: -MaxNegRaw..MaxRaw
MaxNegRaw == 1
MaxRaw == 256
\* number of distinct failures of the ioctl primitives
MaxTransportErr == 2
\* supported-profile counts a unit may report: 0..MaxProfs
MaxProfs == 4
\* model identifiers a unit may report: 0..MaxModelId
MaxModelId == 12

----------------------------------------------------------------------------
(* Constants of the program *)

MAX_FAN_SPEED == 200

U8Max == 255

PERF_PROF_STR_BALANCED == "power_save"
PERF_PROF_STR_ENTHUSIAST == "enthusiast"
PERF_PROF_STR_OVERBOOST == "overboost"

PERF_PROFILE_MAP ==
    << <<PERF_PROF_STR_BALANCED, 1>>,
       <<PERF_PROF_STR_ENTHUSIAST, 2>>,
       <<PERF_PROF_STR_OVERBOOST, 3>> >>

----------------------------------------------------------------------------
(* Values *)

U8 == 0..U8Max

RawReads == (0 - MaxNegRaw)..MaxRaw

\* IoctlError
DevNotAvailable == <<"DevNotAvailable", 0>>
InvalidArgs == <<"InvalidArgs", 0>>
NoErr == <<"none", 0>>
TransportErrors == {<<"Transport", i>> : i \in 1..MaxTransportErr}

\* IoctlResult<T>, and the abort of a todo!()
Ok(v) == [kind |-> "Ok", val |-> v, err |-> NoErr]
Err(e) == [kind |-> "Err", val |-> 0, err |-> e]
Panic == [kind |-> "Panic", val |-> 0, err |-> NoErr]

\* what an ioctl primitive answers
OkResp(v) == [ok |-> TRUE, val |-> v, err |-> NoErr]
ErrResp(e) == [ok |-> FALSE, val |-> 0, err |-> e]
NoResp == [ok |-> TRUE, val |-> 0, err |-> NoErr]

ReadResponses(vals) ==
    {OkResp(v) : v \in vals} \cup {ErrResp(e) : e \in TransportErrors}
WriteResponses ==
    {OkResp(0)} \cup {ErrResp(e) : e \in TransportErrors}

\* a call of read::uw::<prim> or write::uw::<prim>
ReadCall(prim) == [dir |-> "read", prim |-> prim, val |-> 0]
WriteCall(prim, v) == [dir |-> "write", prim |-> prim, val |-> v]

\* the answers a method can get for the calls it issues
Answers(calls, vals) ==
    IF calls = <<>> THEN {NoResp}
    ELSE IF calls[1].dir = "read" THEN ReadResponses(vals)
    ELSE WriteResponses

NoDevice == [present |-> FALSE, num_of_fans |-> 0]
UniwillHardware(n) == [present |-> TRUE, num_of_fans |-> n]

NoCall ==
    [op |-> "none", fan |-> 0, arg |-> 0, name |-> "",
     calls |-> <<>>, resp |-> NoResp, result |-> Ok(0)]

ProfileNames ==
    {"power_save", "enthusiast", "overboost",
     "balanced", "turbo", "Overboost", "POWER_SAVE", ""}

----------------------------------------------------------------------------
(* Conversions *)

\* f64::round of a / b for b > 0: half away from zero
Round(a, b) ==
    IF a >= 0 THEN (2 * a + b) \div (2 * b)
    ELSE 0 - ((2 * (0 - a) + b) \div (2 * b))

\* `x as u8` of an f64: saturating
F64AsU8(x) == IF x < 0 THEN 0 ELSE IF x > U8Max THEN U8Max ELSE x
\* `x as u32` of an f64: saturating.  The upper limit 2^32 - 1 is beyond
\* every value a u8 percentage produces (at most 2 * 255), so only the lower
\* limit is written out.
F64AsU32(x) == IF x < 0 THEN 0 ELSE x

\* `x as u8` of an integer: truncating
IntAsU8(x) == x % 256

\* u8::try_from(x).unwrap_or_default()
U8TryFromOrDefault(x) == IF x \in U8 THEN x ELSE 0

Digit(d) ==
    CASE d = 0 -> "0" [] d = 1 -> "1" [] d = 2 -> "2" [] d = 3 -> "3"
      [] d = 4 -> "4" [] d = 5 -> "5" [] d = 6 -> "6" [] d = 7 -> "7"
      [] d = 8 -> "8" [] d = 9 -> "9"

RECURSIVE Digits(_)
Digits(n) == IF n < 10 THEN <<Digit(n)>> ELSE Append(Digits(n \div 10), Digit(n % 10))

\* id.to_string(), as the sequence of its characters
ToString(n) == IF n < 0 THEN <<"-">> \o Digits(0 - n) ELSE Digits(n)

\* the `?` operator on the answer of a primitive, and a primitive's result
\* returned as it is
\* variant: a failure of the primitive reported as an absent device
Propagate_swallow(e) == Err(DevNotAvailable)

Propagate(e) == Err(e)

----------------------------------------------------------------------------
(* The methods: the calls each issues and the value each returns *)

\* variant: any non-zero answer taken as presence
HwCheckPresent_nonzero(v) == v # 0

HwCheckPresent(v) == v = 1

init_result(resp) ==
    IF ~resp.ok THEN Propagate(resp.err)
    ELSE IF HwCheckPresent(resp.val) THEN Ok(UniwillHardware(2))
    ELSE Err(DevNotAvailable)

device_model_id_str_result(resp) ==
    IF resp.ok THEN Ok(ToString(resp.val)) ELSE Propagate(resp.err)

WriteResult(resp) == IF resp.ok THEN Ok(0) ELSE Propagate(resp.err)

U32FromBool(b) == IF b THEN 1 ELSE 0

\* variant: scaled to a full byte instead of MAX_FAN_SPEED
FanSpeedRaw_byte(percent) == F64AsU32(Round(U8Max * percent, 100))

FanSpeedRaw(percent) == F64AsU32(Round(MAX_FAN_SPEED * percent, 100))

\* variant: any other index falls through to the second fan
FanWired_all(fan) == fan \in U8

FanWired(fan) == fan \in {0, 1}

FanPrim(base, fan) == IF fan = 0 THEN base \o "_0" ELSE base \o "_1"

set_fan_speed_percent_calls(fan, percent) ==
    IF FanWired(fan) THEN <<WriteCall(FanPrim("fan_speed", fan), FanSpeedRaw(percent))>>
    ELSE <<>>

set_fan_speed_percent_result(fan, resp) ==
    IF FanWired(fan) THEN WriteResult(resp) ELSE Err(DevNotAvailable)

FanSpeedPercent(raw) == F64AsU8(Round(raw * 100, MAX_FAN_SPEED))

get_fan_speed_percent_calls(fan) ==
    IF FanWired(fan) THEN <<ReadCall(FanPrim("fan_speed", fan))>> ELSE <<>>

get_fan_speed_percent_result(fan, resp) ==
    IF ~FanWired(fan) THEN Err(DevNotAvailable)
    ELSE IF ~resp.ok THEN Propagate(resp.err)
    ELSE Ok(FanSpeedPercent(resp.val))

get_fan_temperature_calls(fan) ==
    IF FanWired(fan) THEN <<ReadCall(FanPrim("fan_temp", fan))>> ELSE <<>>

\* variant: the 0 sentinel is not checked
TempAbsent_never(temp) == FALSE

TempAbsent(temp) == temp = 0

get_fan_temperature_result(fan, resp) ==
    IF ~FanWired(fan) THEN Err(DevNotAvailable)
    ELSE IF ~resp.ok THEN Propagate(resp.err)
    ELSE IF TempAbsent(resp.val) THEN Err(DevNotAvailable)
    ELSE Ok(IntAsU8(resp.val))

get_fans_min_speed_result(resp) ==
    IF resp.ok THEN Ok(U8TryFromOrDefault(resp.val)) ELSE Propagate(resp.err)

get_fans_off_available_result(resp) ==
    IF resp.ok THEN Ok(resp.val = 1) ELSE Propagate(resp.err)

\* variant: every count of at least 2 answers the two-entry list
AvailableProfiles_two(available_profs) ==
    IF available_profs >= 2
    THEN Ok(<<PERF_PROF_STR_BALANCED, PERF_PROF_STR_ENTHUSIAST>>)
    ELSE Err(DevNotAvailable)

AvailableProfiles(available_profs) ==
    CASE available_profs = 2 ->
            Ok(<<PERF_PROF_STR_BALANCED, PERF_PROF_STR_ENTHUSIAST>>)
      [] available_profs = 3 ->
            Ok(<<PERF_PROF_STR_BALANCED, PERF_PROF_STR_ENTHUSIAST,
                 PERF_PROF_STR_OVERBOOST>>)
      [] OTHER -> Err(DevNotAvailable)

get_available_odm_performance_profiles_result(resp) ==
    IF resp.ok THEN AvailableProfiles(resp.val) ELSE Propagate(resp.err)

\* variant: an unknown name falls back to the first entry
FindProfile_fallback(performance_profile) ==
    LET hits == {i \in 1..Len(PERF_PROFILE_MAP) :
                    PERF_PROFILE_MAP[i][1] = performance_profile}
    IN IF hits = {} THEN 1 ELSE CHOOSE i \in hits : \A j \in hits : i <= j

\* PERF_PROFILE_MAP.iter().find(|(name, _)| name == &performance_profile):
\* the index of the first matching entry, 0 for None
FindProfile(performance_profile) ==
    LET hits == {i \in 1..Len(PERF_PROFILE_MAP) :
                    PERF_PROFILE_MAP[i][1] = performance_profile}
    IN IF hits = {} THEN 0 ELSE CHOOSE i \in hits : \A j \in hits : i <= j

\* variant: the position in the table written instead of the code
set_odm_performance_profile_calls_index(performance_profile) ==
    LET i == FindProfile(performance_profile)
    IN IF i # 0 THEN <<WriteCall("perf_prof", i - 1)>> ELSE <<>>

set_odm_performance_profile_calls(performance_profile) ==
    LET i == FindProfile(performance_profile)
    IN IF i # 0 THEN <<WriteCall("perf_prof", PERF_PROFILE_MAP[i][2])>> ELSE <<>>

set_odm_performance_profile_result(performance_profile, resp) ==
    IF FindProfile(performance_profile) # 0 THEN WriteResult(resp)
    ELSE Err(InvalidArgs)

\* todo!()
Todo == Panic

----------------------------------------------------------------------------
(* The state machine *)

Init ==
    /\ dev = NoDevice
    /\ profs \in 0..MaxProfs
    /\ last = NoCall

Idle == last.op = "none"

Record(op, fan, arg, name, calls, resp, result) ==
    [op |-> op, fan |-> fan, arg |-> arg, name |-> name,
     calls |-> calls, resp |-> resp, result |-> result]

\* a method can be called: the device exists and no call is under way
Ready == Idle /\ dev.present

\* a method of the device returns
Call(op, fan, arg, name, calls, resp, result) ==
    /\ last' = Record(op, fan, arg, name, calls, resp, result)
    /\ UNCHANGED <<dev, profs>>

init ==
    /\ Idle
    /\ ~dev.present
    /\ \E resp \in ReadResponses(RawReads) :
         LET result == init_result(resp)
         IN /\ last' = Record("init", 0, 0, "", <<ReadCall("hw_check")>>, resp, result)
            /\ dev' = IF result.kind = "Ok" THEN result.val ELSE NoDevice
    /\ UNCHANGED profs

device_interface_id_str ==
    /\ Ready
    /\ Call("device_interface_id_str", 0, 0, "", <<>>, NoResp, Ok("uniwill"))

device_model_id_str ==
    /\ Ready
    /\ \E resp \in ReadResponses(0..MaxModelId) :
           Call("device_model_id_str", 0, 0, "", <<ReadCall("model_id")>>, resp,
                device_model_id_str_result(resp))

set_enable_mode_set ==
    /\ Ready
    /\ \E enabled \in BOOLEAN, resp \in WriteResponses :
           Call("set_enable_mode_set", 0, U32FromBool(enabled), "",
                <<WriteCall("mode_enable", U32FromBool(enabled))>>, resp,
                WriteResult(resp))

get_number_fans ==
    /\ Ready
    /\ Call("get_number_fans", 0, 0, "", <<>>, NoResp, Ok(dev.num_of_fans))

set_fans_auto ==
    /\ Ready
    /\ \E resp \in WriteResponses :
           Call("set_fans_auto", 0, 0, "", <<WriteCall("fan_auto", 0)>>, resp,
                WriteResult(resp))

set_fan_speed_percent ==
    /\ Ready
    /\ \E fan \in U8, fan_speed_percent \in U8 :
           LET calls == set_fan_speed_percent_calls(fan, fan_speed_percent)
           IN \E resp \in Answers(calls, RawReads) :
                Call("set_fan_speed_percent", fan, fan_speed_percent, "", calls, resp,
                     set_fan_speed_percent_result(fan, resp))

get_fan_speed_percent ==
    /\ Ready
    /\ \E fan \in U8 :
           LET calls == get_fan_speed_percent_calls(fan)
           IN \E resp \in Answers(calls, RawReads) :
                Call("get_fan_speed_percent", fan, 0, "", calls, resp,
                     get_fan_speed_percent_result(fan, resp))

get_fan_temperature ==
    /\ Ready
    /\ \E fan \in U8 :
           LET calls == get_fan_temperature_calls(fan)
           IN \E resp \in Answers(calls, RawReads) :
                Call("get_fan_temperature", fan, 0, "", calls, resp,
                     get_fan_temperature_result(fan, resp))

get_fans_min_speed ==
    /\ Ready
    /\ \E resp \in ReadResponses(RawReads) :
           Call("get_fans_min_speed", 0, 0, "", <<ReadCall("fans_min_speed")>>, resp,
                get_fans_min_speed_result(resp))

get_fans_off_available ==
    /\ Ready
    /\ \E resp \in ReadResponses(RawReads) :
           Call("get_fans_off_available", 0, 0, "", <<ReadCall("fans_off_available")>>,
                resp, get_fans_off_available_result(resp))

\* the unit answers the profile count it supports
get_available_odm_performance_profiles ==
    /\ Ready
    /\ \E resp \in ReadResponses({profs}) :
           Call("get_available_odm_performance_profiles", 0, 0, "",
                <<ReadCall("profs_available")>>, resp,
                get_available_odm_performance_profiles_result(resp))

set_odm_performance_profile ==
    /\ Ready
    /\ \E performance_profile \in ProfileNames :
           LET calls == set_odm_performance_profile_calls(performance_profile)
           IN \E resp \in Answers(calls, RawReads) :
                Call("set_odm_performance_profile", 0, 0, performance_profile, calls,
                     resp, set_odm_performance_profile_result(performance_profile, resp))

get_default_odm_performance_profile ==
    /\ Ready
    /\ Call("get_default_odm_performance_profile", 0, 0, "", <<>>, NoResp, Todo)

get_number_tdps ==
    /\ Ready
    /\ Call("get_number_tdps", 0, 0, "", <<>>, NoResp, Todo)

get_tdp_descriptors ==
    /\ Ready
    /\ Call("get_tdp_descriptors", 0, 0, "", <<>>, NoResp, Todo)

get_tdp_min ==
    /\ Ready
    /\ \E tdp_index \in U8 : Call("get_tdp_min", 0, tdp_index, "", <<>>, NoResp, Todo)

get_tdp_max ==
    /\ Ready
    /\ \E tdp_index \in U8 : Call("get_tdp_max", 0, tdp_index, "", <<>>, NoResp, Todo)

set_tdp ==
    /\ Ready
    /\ \E tdp_index \in {0, U8Max}, tdp_value \in U8 :
           Call("set_tdp", tdp_index, tdp_value, "", <<>>, NoResp, Todo)

get_tdp ==
    /\ Ready
    /\ \E tdp_index \in U8 : Call("get_tdp", 0, tdp_index, "", <<>>, NoResp, Todo)

\* the caller has the returned value; the device is ready for the next call
Return ==
    /\ ~Idle
    /\ last' = NoCall
    /\ UNCHANGED <<dev, profs>>

Next ==
    \/ init
    \/ device_interface_id_str
    \/ device_model_id_str
    \/ set_enable_mode_set
    \/ get_number_fans
    \/ set_fans_auto
    \/ set_fan_speed_percent
    \/ get_fan_speed_percent
    \/ get_fan_temperature
    \/ get_fans_min_speed
    \/ get_fans_off_available
    \/ get_available_odm_performance_profiles
    \/ set_odm_performance_profile
    \/ get_default_odm_performance_profile
    \/ get_number_tdps
    \/ get_tdp_descriptors
    \/ get_tdp_min
    \/ get_tdp_max
    \/ set_tdp
    \/ get_tdp
    \/ Return

Spec == Init /\ [][Next]_vars

----------------------------------------------------------------------------
(* Properties *)

IsErr(r, e) == r.kind = "Err" /\ r.err = e

IsOk(r) == r.kind = "Ok"

Range(seq) == {seq[i] : i \in 1..Len(seq)}

CanonicalProfiles ==
    <<PERF_PROF_STR_BALANCED, PERF_PROF_STR_ENTHUSIAST, PERF_PROF_STR_OVERBOOST>>

IsPrefix(s, t) == Len(s) <= Len(t) /\ \A i \in 1..Len(s) : s[i] = t[i]

Unimplemented == <<"Unimplemented", 0>>

HwCheckOne == last.resp.ok /\ last.resp.val = 1

\* C1 (as stated): init returns a device with two fans only when the
\* presence check reads 1; for any other value, and also when the read fails
\* in the transport, it returns DevNotAvailable and no device exists.
C1_Original ==
    last.op = "init" =>
        /\ IsOk(last.result) => (HwCheckOne /\ dev = UniwillHardware(2))
        /\ ~HwCheckOne => (IsErr(last.result, DevNotAvailable) /\ dev = NoDevice)

\* C1 (amended): init returns a device with two fans only when the presence
\* check reads 1; for any other value it returns DevNotAvailable, when the
\* read fails in the transport it returns that transport error, and in both
\* cases no device exists.
C1_Init ==
    last.op = "init" =>
        /\ IsOk(last.result) => (HwCheckOne /\ dev = UniwillHardware(2))
        /\ (last.resp.ok /\ last.resp.val # 1) =>
               (IsErr(last.result, DevNotAvailable) /\ dev = NoDevice)
        /\ ~last.resp.ok => (IsErr(last.result, last.resp.err) /\ dev = NoDevice)
        /\ HwCheckOne => IsOk(last.result)

C1_Witness ==
    /\ last.op = "init"
    /\ ~last.resp.ok
    /\ last.result.kind = "Err"
    /\ last.result.err \in TransportErrors
    /\ dev = NoDevice

FanOps == {"set_fan_speed_percent", "get_fan_speed_percent", "get_fan_temperature"}

\* C2: for a fan index outside {0, 1} and any percentage, the three fan
\* methods fail with DevNotAvailable and issue no transport call.
C2_FanIndex ==
    (last.op \in FanOps /\ last.fan \notin {0, 1}) =>
        (IsErr(last.result, DevNotAvailable) /\ last.calls = <<>>)

C2_Witness ==
    /\ last.op = "set_fan_speed_percent"
    /\ last.fan = U8Max
    /\ last.arg = 100
    /\ IsErr(last.result, DevNotAvailable)

\* C3: for a percentage p in 0..100 the raw value written by
\* set_fan_speed_percent, converted back as get_fan_speed_percent converts a
\* read, gives q with |q - p| <= 1; p -> q is monotonic; 0 is written as 0
\* and 100 as 0xC8.
C3_RoundTrip ==
    (last.op = "set_fan_speed_percent" /\ last.calls # <<>> /\ last.arg \in 0..100) =>
        LET p == last.arg
            w == last.calls[1].val
            q == FanSpeedPercent(w)
        IN /\ q - p <= 1
           /\ p - q <= 1
           /\ \A p2 \in 0..100 :
                 /\ p <= p2 => q <= FanSpeedPercent(FanSpeedRaw(p2))
                 /\ p2 <= p => FanSpeedPercent(FanSpeedRaw(p2)) <= q
           /\ p = 0 => w = 0
           /\ p = 100 => w = MAX_FAN_SPEED

C3_Witness ==
    /\ last.op = "set_fan_speed_percent"
    /\ last.fan = 1
    /\ last.arg = 100
    /\ IsOk(last.result)
    /\ last.calls = <<WriteCall("fan_speed_1", 200)>>

\* C4: for fan 0 or 1, get_fan_temperature returns DevNotAvailable when the
\* raw temperature read is 0, and Ok(raw) unchanged for every raw in 1..255.
C4_Temperature ==
    (last.op = "get_fan_temperature" /\ last.fan \in {0, 1} /\ last.resp.ok) =>
        /\ last.resp.val = 0 => IsErr(last.result, DevNotAvailable)
        /\ last.resp.val \in 1..U8Max =>
               (IsOk(last.result) /\ last.result.val = last.resp.val)

C4_Witness ==
    /\ last.op = "get_fan_temperature"
    /\ last.fan = 0
    /\ last.resp.ok
    /\ last.resp.val = 0
    /\ IsErr(last.result, DevNotAvailable)

\* C5: available profiles are exactly [power_save, enthusiast] for a raw
\* count of 2, [power_save, enthusiast, overboost] for 3, DevNotAvailable for
\* every other count; a successful answer is a prefix of the canonical list.
C5_AvailableProfiles ==
    (last.op = "get_available_odm_performance_profiles" /\ last.resp.ok) =>
        /\ last.resp.val = 2 =>
               (IsOk(last.result) /\ last.result.val = <<"power_save", "enthusiast">>)
        /\ last.resp.val = 3 =>
               (IsOk(last.result)
                /\ last.result.val = <<"power_save", "enthusiast", "overboost">>)
        /\ last.resp.val \notin {2, 3} => IsErr(last.result, DevNotAvailable)
        /\ IsOk(last.result) => IsPrefix(last.result.val, CanonicalProfiles)

C5_Witness ==
    /\ last.op = "get_available_odm_performance_profiles"
    /\ last.resp.ok
    /\ last.resp.val = 3
    /\ IsOk(last.result)
    /\ Len(last.result.val) = 3

\* C6: set_odm_performance_profile writes code 1, 2, 3 for exactly the names
\* power_save, enthusiast, overboost; for any other name (also one differing
\* only in case) it fails with InvalidArgs and issues no write.
C6_SetProfile ==
    last.op = "set_odm_performance_profile" =>
        /\ last.name = "power_save" => last.calls = <<WriteCall("perf_prof", 1)>>
        /\ last.name = "enthusiast" => last.calls = <<WriteCall("perf_prof", 2)>>
        /\ last.name = "overboost" => last.calls = <<WriteCall("perf_prof", 3)>>
        /\ last.name \notin {"power_save", "enthusiast", "overboost"} =>
               (IsErr(last.result, InvalidArgs) /\ last.calls = <<>>)

C6_Witness ==
    /\ last.op = "set_odm_performance_profile"
    /\ last.name = "Overboost"
    /\ IsErr(last.result, InvalidArgs)
    /\ last.calls = <<>>

TodoOps ==
    {"get_default_odm_performance_profile", "get_number_tdps", "get_tdp_descriptors",
     "get_tdp_min", "get_tdp_max", "set_tdp", "get_tdp"}

\* C7: the default-profile query and every TDP method return an explicit
\* Unimplemented error value (not DevNotAvailable, not InvalidArgs) instead
\* of aborting.
C7_Unimplemented ==
    last.op \in TodoOps =>
        /\ last.result.kind # "Panic"
        /\ IsErr(last.result, Unimplemented)

\* C8: when the transport primitive a method calls fails, the method returns
\* that same error unchanged, and every method issues at most one transport
\* call.
C8_TransportError ==
    /\ Len(last.calls) <= 1
    /\ (last.calls # <<>> /\ ~last.resp.ok) => IsErr(last.result, last.resp.err)

C8_Witness ==
    /\ last.op = "get_fan_speed_percent"
    /\ Len(last.calls) = 1
    /\ ~last.resp.ok
    /\ IsErr(last.result, <<"Transport", MaxTransportErr>>)

\* C9: every raw value set_fan_speed_percent passes to a fan-speed write lies
\* in 0..0xC8, for every u8 percentage, also above 100.
C9_RawRange ==
    (last.op = "set_fan_speed_percent" /\ last.calls # <<>>) =>
        last.calls[1].val \in 0..MAX_FAN_SPEED

ReportedProfiles == IF profs \in {2, 3} THEN Range(AvailableProfiles(profs).val) ELSE {}

\* C10 (as stated): on a unit reporting n (2 or 3) profiles,
\* set_odm_performance_profile writes only for a name the unit reports, so
\* the code written is <= n; every reported name is accepted.
C10_Original ==
    (last.op = "set_odm_performance_profile" /\ profs \in {2, 3}) =>
        /\ last.calls # <<>> =>
               (last.name \in ReportedProfiles /\ last.calls[1].val <= profs)
        /\ last.name \in ReportedProfiles => last.calls # <<>>

\* C10 (amended): on a unit reporting n (2 or 3) profiles,
\* set_odm_performance_profile writes for every name of the canonical table
\* whatever n is, so the code written lies in 1..3 and may exceed n; every
\* reported name is accepted and written as its position in the reported list.
C10_Negotiation ==
    (last.op = "set_odm_performance_profile" /\ profs \in {2, 3}) =>
        /\ last.calls # <<>> =>
               (last.name \in Range(CanonicalProfiles) /\ last.calls[1].val \in 1..3)
        /\ last.name \in Range(CanonicalProfiles) => last.calls # <<>>
        /\ last.name \in ReportedProfiles =>
               /\ Len(last.calls) = 1
               /\ last.calls[1].val <= profs
               /\ AvailableProfiles(profs).val[last.calls[1].val] = last.name
               /\ ~IsErr(last.result, InvalidArgs)

C10_Witness ==
    /\ last.op = "set_odm_performance_profile"
    /\ profs = 2
    /\ last.name = "overboost"
    /\ last.calls = <<WriteCall("perf_prof", 3)>>
    /\ IsOk(last.result)

====
